---- MODULE Spec2Model ----
(***************************************************************************)
(* Model of src/main.py: process_sales_data(input_files, output_file).     *)
(*                                                                         *)
(* A run reads every input file in list order, keeps the rows whose        *)
(* product is "pink morsel" (case-insensitively), computes                 *)
(* Sales = price * quantity, projects to (Sales, Date, Region), appends    *)
(* the per-file frame to all_data_frames, and after the loop writes the    *)
(* concatenation to the output file.                                       *)
(*                                                                         *)
(* Text is modelled as sequences of one-character strings, so that         *)
(* lower-casing, '$' removal and numeric parsing are computed.  Numbers    *)
(* are naturals (the numerals of the model have no fraction part).         *)
(* A file is identified with its content; the output path is distinct      *)
(* from every input path.                                                  *)
(***************************************************************************)
EXTENDS Integers, Sequences, FiniteSets, TLC

MaxFiles == 2      \* longest input_files list explored
MaxRows  == 2      \* most rows in one input file
MaxRuns  == 2      \* successive calls of process_sales_data explored

VARIABLES
    input_files,      \* the list handed to the current run, each file by content
    writable,         \* whether to_csv can open output_file for writing
    out,              \* content of output_file: its lines, <<>> when absent
    all_data_frames,  \* line 14: the per-file output frames, in append order
    idx,              \* position of the for loop of line 16 (1-based)
    pc,               \* "idle" | "loop" | "done"
    status,           \* what the run printed last: "" | "nodata" | "saved" | "writeerror"
    writes,           \* to_csv calls of the current run
    runs,             \* calls of process_sales_data so far
    prevOut,          \* content of output_file when the current run started
    rerun             \* the current run repeats the run before it on the same inputs

vars == <<input_files, writable, out, all_data_frames, idx, pc, status,
          writes, runs, prevOut, rerun>>

----------------------------------------------------------------------------
(* Text *)

TARGET == <<"p","i","n","k"," ","m","o","r","s","e","l">>

\* str.lower on one character (the upper-case letters of the model's texts)
LowerChar(c) ==
    CASE c = "P" -> "p"
      [] c = "I" -> "i"
      [] c = "N" -> "n"
      [] c = "K" -> "k"
      [] c = "M" -> "m"
      [] c = "O" -> "o"
      [] c = "R" -> "r"
      [] c = "S" -> "s"
      [] c = "E" -> "e"
      [] c = "L" -> "l"
      [] OTHER   -> c

\* Series.str.lower, line 27
Lower(s) == [k \in DOMAIN s |-> LowerChar(s[k])]

Digits == {"1", "2", "3", "4", "5"}

DigitValue(c) ==
    CASE c = "1" -> 1
      [] c = "2" -> 2
      [] c = "3" -> 3
      [] c = "4" -> 4
      [] c = "5" -> 5
      [] OTHER   -> 0

\* variant of StripDollar: only one leading '$' is removed
StripLeadingDollar(s) ==
    IF s # <<>> /\ Head(s) = "$" THEN Tail(s) ELSE s

\* Series.replace({'\$': ''}, regex=True), line 35: every '$' is removed
RECURSIVE StripDollar(_)
StripDollar(s) ==
    IF s = <<>> THEN <<>>
    ELSE IF Head(s) = "$" THEN StripDollar(Tail(s))
    ELSE <<Head(s)>> \o StripDollar(Tail(s))

\* whether float() / pd.to_numeric accept the text (lines 35, 37)
IsNumeric(s) == s # <<>> /\ \A k \in DOMAIN s : s[k] \in Digits

\* the number float() / pd.to_numeric yield for an accepted text
RECURSIVE ToNumber(_)
ToNumber(s) ==
    IF s = <<>> THEN 0
    ELSE 10 * ToNumber(SubSeq(s, 1, Len(s) - 1)) + DigitValue(s[Len(s)])

----------------------------------------------------------------------------
(* Input files *)

PinkLower == TARGET
PinkMixed == <<"P","i","n","k"," ","M","O","R","S","E","L">>
Gold      == <<"g","o","l","d"," ","m","o","r","s","e","l">>

Row(p, pr, q, d, r) ==
    [product |-> p, price |-> pr, quantity |-> q, date |-> d, region |-> r]

\* the rows input files are made of
RowPool ==
    { Row(PinkLower, <<"$","3">>,     <<"2">>, "2021-01-01", "north"),
      Row(PinkMixed, <<"$","$","4">>, <<"3">>, "2021-01-02", "south"),
      Row(Gold,      <<"$","5">>,     <<"1">>, "2021-01-03", "east"),
      Row(Gold,      <<"$","5">>,     <<"x">>, "2021-01-04", "west"),
      Row(PinkLower, <<"$","x">>,     <<"2">>, "2021-01-05", "north"),
      Row(PinkLower, <<"$","3">>,     <<"x">>, "2021-01-06", "south") }

Tables == UNION { [1..n -> RowPool] : n \in 0..MaxRows }

\* what an input path can hold
FileContents ==
    { [kind |-> "missing",   rows |-> <<>>],      \* os.path.exists is False
      [kind |-> "garbage",   rows |-> <<>>],      \* pd.read_csv raises
      [kind |-> "noproduct", rows |-> <<>>] }     \* a table without a product column
    \cup { [kind |-> "sales", rows |-> t] : t \in Tables }

FileLists == UNION { [1..n -> FileContents] : n \in 0..MaxFiles }

----------------------------------------------------------------------------
(* The stages of one loop iteration *)

\* pd.read_csv, line 23: the rows under a RangeIndex starting at 0
ReadCsv(file) ==
    [k \in 1..Len(file.rows) |->
        [index    |-> k - 1,
         product  |-> file.rows[k].product,
         price    |-> file.rows[k].price,
         quantity |-> file.rows[k].quantity,
         date     |-> file.rows[k].date,
         region   |-> file.rows[k].region]]

\* the boolean mask of line 27
IsPinkMorsel(r) == Lower(r.product) = TARGET

\* variant of FilterPink: the mask is not applied
FilterAll(df) == df

\* lines 26-27: df[mask].copy()
FilterPink(df) == SelectSeq(df, IsPinkMorsel)

\* variant of Transform: rows that do not convert are dropped one by one
\* instead of raising
TransformCoerce(df_pink) ==
    LET Converts(r) == IsNumeric(StripDollar(r.price)) /\ IsNumeric(r.quantity)
        good == SelectSeq(df_pink, Converts)
    IN  [ok |-> TRUE,
         rows |-> [k \in DOMAIN good |->
                     [index  |-> good[k].index,
                      Sales  |-> ToNumber(StripDollar(good[k].price))
                                   * ToNumber(good[k].quantity),
                      date   |-> good[k].date,
                      region |-> good[k].region]]]

\* variant of Transform: Sales is the sum instead of the product
TransformAdds(df_pink) ==
    IF \A k \in DOMAIN df_pink :
          /\ IsNumeric(StripDollar(df_pink[k].price))
          /\ IsNumeric(df_pink[k].quantity)
    THEN [ok |-> TRUE,
          rows |-> [k \in DOMAIN df_pink |->
                      [index  |-> df_pink[k].index,
                       Sales  |-> ToNumber(StripDollar(df_pink[k].price))
                                    + ToNumber(df_pink[k].quantity),
                       date   |-> df_pink[k].date,
                       region |-> df_pink[k].region]]]
    ELSE [ok |-> FALSE, rows |-> <<>>]

\* lines 35-39: both columns are converted whole, then Sales is computed;
\* ok is FALSE when a conversion raises
Transform(df_pink) ==
    IF \A k \in DOMAIN df_pink :
          /\ IsNumeric(StripDollar(df_pink[k].price))
          /\ IsNumeric(df_pink[k].quantity)
    THEN [ok |-> TRUE,
          rows |-> [k \in DOMAIN df_pink |->
                      [index  |-> df_pink[k].index,
                       Sales  |-> ToNumber(StripDollar(df_pink[k].price))
                                    * ToNumber(df_pink[k].quantity),
                       date   |-> df_pink[k].date,
                       region |-> df_pink[k].region]]]
    ELSE [ok |-> FALSE, rows |-> <<>>]

\* lines 44-45: select Sales, date, region and rename
Project(df) ==
    [k \in DOMAIN df |->
        [index  |-> df[k].index,
         Sales  |-> df[k].Sales,
         Date   |-> df[k].date,
         Region |-> df[k].region]]

\* variant of Flatten: later frames come first
RECURSIVE FlattenReversed(_)
FlattenReversed(frames) ==
    IF frames = <<>> THEN <<>> ELSE FlattenReversed(Tail(frames)) \o Head(frames)

RECURSIVE Flatten(_)
Flatten(frames) ==
    IF frames = <<>> THEN <<>> ELSE Head(frames) \o Flatten(Tail(frames))

\* pd.concat(all_data_frames, ignore_index=True), line 57
Concat(frames) ==
    LET flat == Flatten(frames)
    IN  [k \in DOMAIN flat |->
            [index  |-> k - 1,
             Sales  |-> flat[k].Sales,
             Date   |-> flat[k].Date,
             Region |-> flat[k].Region]]

HEADER == <<"Sales", "Date", "Region">>

\* DataFrame.to_csv(output_file, index=False), line 61: the lines of the file
ToCsv(df) ==
    <<HEADER>> \o [k \in DOMAIN df |-> <<df[k].Sales, df[k].Date, df[k].Region>>]

----------------------------------------------------------------------------
(* The run *)

Init ==
    /\ input_files = <<>>
    /\ writable = TRUE
    /\ out = <<>>
    /\ all_data_frames = <<>>
    /\ idx = 1
    /\ pc = "idle"
    /\ status = ""
    /\ writes = 0
    /\ runs = 0
    /\ prevOut = <<>>
    /\ rerun = FALSE

InLoop == pc = "loop" /\ idx <= Len(input_files)

file_path == input_files[idx]

df_pink == FilterPink(ReadCsv(file_path))

\* line 5 and line 14: a call of process_sales_data with a list of files
\* and a state of the output path chosen by the caller
StartRun ==
    /\ pc = "idle"
    /\ runs < MaxRuns
    /\ \E files \in FileLists, w \in BOOLEAN :
          /\ input_files' = files
          /\ writable' = w
    /\ all_data_frames' = <<>>
    /\ idx' = 1
    /\ pc' = "loop"
    /\ status' = ""
    /\ writes' = 0
    /\ runs' = runs + 1
    /\ prevOut' = out
    /\ rerun' = FALSE
    /\ UNCHANGED out

\* variant of RunAgain: the list of frames outlives the call (as a
\* module-level list would) and is not emptied
RunAgainKeepsFrames ==
    /\ pc = "done"
    /\ runs < MaxRuns
    /\ idx' = 1
    /\ pc' = "loop"
    /\ status' = ""
    /\ writes' = 0
    /\ runs' = runs + 1
    /\ prevOut' = out
    /\ rerun' = TRUE
    /\ UNCHANGED <<input_files, writable, out, all_data_frames>>

\* line 5 and line 14: the caller repeats the call it just made, with the
\* same list, the same file contents and the same output path
RunAgain ==
    /\ pc = "done"
    /\ runs < MaxRuns
    /\ all_data_frames' = <<>>
    /\ idx' = 1
    /\ pc' = "loop"
    /\ status' = ""
    /\ writes' = 0
    /\ runs' = runs + 1
    /\ prevOut' = out
    /\ rerun' = TRUE
    /\ UNCHANGED <<input_files, writable, out>>

\* lines 54 and 66: the function returns and its locals are gone; only the
\* output file remains
Return ==
    /\ pc = "done"
    /\ runs < MaxRuns
    /\ input_files' = <<>>
    /\ writable' = TRUE
    /\ all_data_frames' = <<>>
    /\ idx' = 1
    /\ pc' = "idle"
    /\ status' = ""
    /\ writes' = 0
    /\ prevOut' = out
    /\ rerun' = FALSE
    /\ UNCHANGED <<out, runs>>

\* `continue`, lines 19 and 31
Continue ==
    /\ idx' = idx + 1
    /\ pc' = "loop"

\* variant of ExceptHandler: the exception leaves the function
ExceptPropagates ==
    /\ idx' = idx
    /\ pc' = "done"

\* lines 49-50: the exception is caught and the loop goes on
ExceptHandler ==
    /\ idx' = idx + 1
    /\ pc' = "loop"

\* lines 17-19
SkipMissing ==
    /\ InLoop
    /\ file_path.kind = "missing"
    /\ Continue
    /\ UNCHANGED <<input_files, writable, out, all_data_frames, status,
                   writes, runs, prevOut, rerun>>

\* line 23 raises
ReadFails ==
    /\ InLoop
    /\ file_path.kind = "garbage"
    /\ ExceptHandler
    /\ UNCHANGED <<input_files, writable, out, all_data_frames, status,
                   writes, runs, prevOut, rerun>>

\* df['product'] of line 27 raises KeyError
NoProductColumn ==
    /\ InLoop
    /\ file_path.kind = "noproduct"
    /\ ExceptHandler
    /\ UNCHANGED <<input_files, writable, out, all_data_frames, status,
                   writes, runs, prevOut, rerun>>

\* lines 29-31
SkipEmpty ==
    /\ InLoop
    /\ file_path.kind = "sales"
    /\ df_pink = <<>>
    /\ Continue
    /\ UNCHANGED <<input_files, writable, out, all_data_frames, status,
                   writes, runs, prevOut, rerun>>

\* line 35 or line 37 raises
NumericParseError ==
    /\ InLoop
    /\ file_path.kind = "sales"
    /\ df_pink # <<>>
    /\ ~Transform(df_pink).ok
    /\ ExceptHandler
    /\ UNCHANGED <<input_files, writable, out, all_data_frames, status,
                   writes, runs, prevOut, rerun>>

\* variant of AppendFrame: the output file is rewritten after every file
AppendAndWrite ==
    /\ pc = "loop" /\ idx <= Len(input_files)
    /\ input_files[idx].kind = "sales"
    /\ FilterPink(ReadCsv(input_files[idx])) # <<>>
    /\ Transform(FilterPink(ReadCsv(input_files[idx]))).ok
    /\ all_data_frames' =
          Append(all_data_frames,
                 Project(Transform(FilterPink(ReadCsv(input_files[idx]))).rows))
    /\ out' = ToCsv(Concat(all_data_frames'))
    /\ writes' = writes + 1
    /\ idx' = idx + 1
    /\ pc' = "loop"
    /\ UNCHANGED <<input_files, writable, status, runs, prevOut, rerun>>

\* lines 33-47
AppendFrame ==
    /\ InLoop
    /\ file_path.kind = "sales"
    /\ df_pink # <<>>
    /\ Transform(df_pink).ok
    /\ all_data_frames' = Append(all_data_frames, Project(Transform(df_pink).rows))
    /\ idx' = idx + 1
    /\ pc' = "loop"
    /\ UNCHANGED <<input_files, writable, out, status,
                   writes, runs, prevOut, rerun>>

LoopDone == pc = "loop" /\ idx > Len(input_files)

\* variant of NoDataProcessed: an empty table is written all the same
NoDataWritesHeader ==
    /\ pc = "loop" /\ idx > Len(input_files)
    /\ all_data_frames = <<>>
    /\ out' = ToCsv(<<>>)
    /\ writes' = writes + 1
    /\ pc' = "done"
    /\ status' = "nodata"
    /\ UNCHANGED <<input_files, writable, all_data_frames, idx,
                   runs, prevOut, rerun>>

\* lines 52-54
NoDataProcessed ==
    /\ LoopDone
    /\ all_data_frames = <<>>
    /\ pc' = "done"
    /\ status' = "nodata"
    /\ UNCHANGED <<input_files, writable, out, all_data_frames, idx,
                   writes, runs, prevOut, rerun>>

\* variant of SaveOutput: the file is opened for appending
SaveAppends ==
    /\ pc = "loop" /\ idx > Len(input_files)
    /\ all_data_frames # <<>>
    /\ writable
    /\ out' = out \o ToCsv(Concat(all_data_frames))
    /\ writes' = writes + 1
    /\ pc' = "done"
    /\ status' = "saved"
    /\ UNCHANGED <<input_files, writable, all_data_frames, idx,
                   runs, prevOut, rerun>>

\* lines 57-64
SaveOutput ==
    /\ LoopDone
    /\ all_data_frames # <<>>
    /\ writable
    /\ out' = ToCsv(Concat(all_data_frames))
    /\ writes' = writes + 1
    /\ pc' = "done"
    /\ status' = "saved"
    /\ UNCHANGED <<input_files, writable, all_data_frames, idx,
                   runs, prevOut, rerun>>

\* lines 57-61, 65-66: to_csv raises before anything is written
SaveFails ==
    /\ LoopDone
    /\ all_data_frames # <<>>
    /\ ~writable
    /\ writes' = writes + 1
    /\ pc' = "done"
    /\ status' = "writeerror"
    /\ UNCHANGED <<input_files, writable, out, all_data_frames, idx,
                   runs, prevOut, rerun>>

Next ==
    \/ StartRun
    \/ RunAgain
    \/ Return
    \/ SkipMissing
    \/ ReadFails
    \/ NoProductColumn
    \/ SkipEmpty
    \/ NumericParseError
    \/ AppendFrame
    \/ NoDataProcessed
    \/ SaveOutput
    \/ SaveFails

Spec == Init /\ [][Next]_vars

----------------------------------------------------------------------------
(* What the run is expected to produce, stated over the input files alone *)

UpperOf ==
    [c \in {"p", "i", "n", "k", "m", "o", "r", "s", "e", "l"} |->
        CASE c = "p" -> "P" [] c = "i" -> "I" [] c = "n" -> "N" [] c = "k" -> "K"
          [] c = "m" -> "M" [] c = "o" -> "O" [] c = "r" -> "R" [] c = "s" -> "S"
          [] c = "e" -> "E" [] OTHER -> "L"]

\* a product that is "pink morsel" up to the case of its letters
IsTargetProduct(p) ==
    /\ Len(p) = Len(TARGET)
    /\ \A k \in DOMAIN p :
          \/ p[k] = TARGET[k]
          \/ TARGET[k] \in DOMAIN UpperOf /\ p[k] = UpperOf[TARGET[k]]

\* the positions (1-based) of the matching rows of a file
Retained(file) == { j \in DOMAIN file.rows : IsTargetProduct(file.rows[j].product) }

NotDollar(c) == c # "$"

PriceText(row) == SelectSeq(row.price, NotDollar)

IsNumeral(t) == Len(t) > 0 /\ { t[k] : k \in DOMAIN t } \subseteq Digits

BadNumber(row) == ~IsNumeral(PriceText(row)) \/ ~IsNumeral(row.quantity)

HasBadMatchingRow(file) == \E j \in Retained(file) : BadNumber(file.rows[j])

\* the file is read, has a matching row, and all its matching rows parse
Contributes(file) ==
    /\ file.kind = "sales"
    /\ Retained(file) # {}
    /\ ~HasBadMatchingRow(file)

\* the output line of a row
LineOf(row) ==
    <<ToNumber(PriceText(row)) * ToNumber(row.quantity), row.date, row.region>>

RowIsRetained(row) == IsTargetProduct(row.product)

LinesOfFile(file) ==
    IF Contributes(file)
    THEN LET kept == SelectSeq(file.rows, RowIsRetained)
         IN  [k \in DOMAIN kept |-> LineOf(kept[k])]
    ELSE <<>>

RECURSIVE ExpectedLines(_)
ExpectedLines(files) ==
    IF files = <<>> THEN <<>>
    ELSE LinesOfFile(Head(files)) \o ExpectedLines(Tail(files))

RemoveAt(s, i) == SubSeq(s, 1, i - 1) \o SubSeq(s, i + 1, Len(s))

\* the data lines a frame list serializes to
RECURSIVE FrameLines(_)
FrameLines(frames) ==
    IF frames = <<>> THEN <<>>
    ELSE [k \in DOMAIN Head(frames) |->
            <<Head(frames)[k].Sales, Head(frames)[k].Date, Head(frames)[k].Region>>]
         \o FrameLines(Tail(frames))

DataLines(content) == SubSeq(content, 2, Len(content))

Appended == Len(all_data_frames') = Len(all_data_frames) + 1

NewFrame == all_data_frames'[Len(all_data_frames')]

SomeContributes == \E i \in DOMAIN input_files : Contributes(input_files[i])

----------------------------------------------------------------------------
(* Claims *)

\* C1: the frame a file appends holds exactly the rows of that file whose
\* product, lower-cased, is "pink morsel" (none of the other rows), and every
\* data line written to the output file is a line of such a frame.
C1_OnlyPinkMorsel ==
    [][ /\ Appended =>
            /\ { NewFrame[m].index + 1 : m \in DOMAIN NewFrame } = Retained(file_path)
            /\ Len(NewFrame) = Cardinality(Retained(file_path))
        /\ out' # out =>
            DataLines(out') = FrameLines(all_data_frames) ]_vars

\* C1 witness: an output was written from a file that also has a row of
\* another product.
C1_Witness ==
    /\ status = "saved"
    /\ \E i \in DOMAIN input_files :
          /\ Contributes(input_files[i])
          /\ \E j \in DOMAIN input_files[i].rows :
                /\ j \notin Retained(input_files[i])
                /\ ~BadNumber(input_files[i].rows[j])

\* C2: when the run is over, every file was visited, and for each file that
\* did not contribute (missing, unreadable, no matching row, numeric error)
\* the aggregated records are those of the list without that file.
C2_PerFileIsolation ==
    pc = "done" =>
        /\ idx = Len(input_files) + 1
        /\ \A i \in DOMAIN input_files :
              ~Contributes(input_files[i]) =>
                  FrameLines(all_data_frames) = ExpectedLines(RemoveAt(input_files, i))

\* C2 witness: a file that fails numeric parsing is followed by a file that
\* contributes, and the run has finished.
C2_Witness ==
    /\ pc = "done"
    /\ Len(input_files) = 2
    /\ input_files[1].kind = "sales"
    /\ HasBadMatchingRow(input_files[1])
    /\ Contributes(input_files[2])
    /\ Len(all_data_frames) = 1

LexBefore(q, p) == q[1] < p[1] \/ (q[1] = p[1] /\ q[2] < p[2])

RetainedPairs ==
    UNION { { <<i, j>> : j \in Retained(input_files[i]) } :
              i \in { n \in DOMAIN input_files : Contributes(input_files[n]) } }

\* C3: the data lines of the written output are the retained rows ordered by
\* file position, then by row position within the file.
C3_ConcatenationOrder ==
    status = "saved" =>
        /\ Len(out) = 1 + Cardinality(RetainedPairs)
        /\ \A p \in RetainedPairs :
              out[2 + Cardinality({ q \in RetainedPairs : LexBefore(q, p) })]
                  = LineOf(input_files[p[1]].rows[p[2]])

\* C3 witness: two files contribute, the first two rows, and neighbouring
\* lines differ, so that an order is visible.
C3_Witness ==
    /\ status = "saved"
    /\ Len(input_files) = 2
    /\ Cardinality(Retained(input_files[1])) = 2
    /\ Contributes(input_files[1])
    /\ Contributes(input_files[2])
    /\ out[2] # out[3]
    /\ out[3] # out[4]

C5_NoDataNoWrite ==
    (pc = "done" /\ ~SomeContributes) =>
        /\ writes = 0
        /\ out = prevOut
        /\ status = "nodata"

\* C5 witness: a run over a non-empty list contributed nothing while an
\* output file written by an earlier run was present.
C5_Witness ==
    /\ pc = "done"
    /\ ~SomeContributes
    /\ input_files # <<>>
    /\ prevOut # <<>>
    /\ out = prevOut

RECURSIVE SumOfCounts(_)
SumOfCounts(files) ==
    IF files = <<>> THEN 0
    ELSE (IF Contributes(Head(files)) THEN Cardinality(Retained(Head(files))) ELSE 0)
         + SumOfCounts(Tail(files))

\* C7: the number of data rows written equals the sum of the matching-row
\* counts of the files that parsed and had a matching row.
C7_RowCount ==
    status = "saved" => Len(out) - 1 = SumOfCounts(input_files)

\* C7 witness: one file contributes two rows, the other has a matching row
\* but fails numeric parsing and is not counted.
C7_Witness ==
    /\ status = "saved"
    /\ Len(out) - 1 = 2
    /\ \E i \in DOMAIN input_files :
          /\ input_files[i].kind = "sales"
          /\ HasBadMatchingRow(input_files[i])
          /\ \E j \in Retained(input_files[i]) : ~BadNumber(input_files[i].rows[j])

\* C8: to_csv is called at most once per run, and while the loop over the
\* input files is running it has not been called and the output file is as
\* it was when the run started.
C8_NoPartialWrites ==
    /\ writes <= 1
    /\ pc = "loop" => (writes = 0 /\ out = prevOut)
    /\ writes = 1 => (pc = "done" /\ idx = Len(input_files) + 1)

\* C8 witness: a run over two contributing files has written once.
C8_Witness ==
    /\ pc = "done"
    /\ writes = 1
    /\ Len(all_data_frames) = 2
    /\ out # prevOut

C10_Idempotent ==
    (pc = "done" /\ rerun) => out = prevOut

\* C10 witness: a repeated run has written an output of two data rows.
C10_Witness ==
    /\ pc = "done"
    /\ rerun
    /\ status = "saved"
    /\ Len(out) = 3

====
